---- MODULE Spec2Model ----
(***************************************************************************)
(* Market-data pipeline: the storage layer (src/src/pipeline/store.py),    *)
(* the source registry (src/src/sources/registry.py) and the cleaning      *)
(* stage (src/src/pipeline/clean.py).                                      *)
(*                                                                         *)
(* Tables are sequences of rows in rowid order.  A numeric cell is a       *)
(* record [t, v]: t = "num" (a number v), "nan" (a missing number),        *)
(* "text" (a string that is not a number, such as "abc") or "null" (SQL    *)
(* NULL).  The columns ingested_at / computed_at (wall clock) are left     *)
(* out.                                                                    *)
(***************************************************************************)
EXTENDS Integers, Sequences, FiniteSets, TLC

VARIABLES prices, daily_metrics, price_comparison, call,
          sources, fetched, csv,
          raw_df, clean_df,
          schema, writers, run

vars == <<prices, daily_metrics, price_comparison, call, sources, fetched, csv, raw_df,
          clean_df, schema, writers, run>>
storeVars == <<prices, daily_metrics, price_comparison, call>>
registryVars == <<sources, fetched, csv>>
cleanVars == <<raw_df, clean_df>>
runVars == <<schema, writers, run>>

(***************************************************************************)
(* Bounds                                                                  *)
(***************************************************************************)
MaxBatch == 2
MaxPrices == 3

(***************************************************************************)
(* Values                                                                  *)
(***************************************************************************)
Num(n) == [t |-> "num", v |-> n]
NaN == [t |-> "nan", v |-> 0]
Text == [t |-> "text", v |-> 0]
Null == [t |-> "null", v |-> 0]

\* a Python object sqlite3 cannot bind as a parameter (sqlite3.Error on execute)
Unbindable == "<object>"

Suppliers == {"sephora", "lamour"}
Products == {"P1", "P2"}

\* a pandas Timestamp: calendar day and time of day
Timestamps == {[day |-> 1, tod |-> 0], [day |-> 2, tod |-> 9]}

\* str(Timestamp): "YYYY-MM-DD HH:MM:SS", kept as the sequence of its two
\* parts; text compares lexicographically, a proper prefix being smaller
StrTimestamp(ts) == <<ts.day, ts.tod>>

\* pd.to_datetime on a stored text
ToDatetime(txt) == [day |-> txt[1], tod |-> IF Len(txt) >= 2 THEN txt[2] ELSE 0]

RECURSIVE TextLess(_, _)
TextLess(a, b) ==
    IF b = <<>> THEN FALSE
    ELSE IF a = <<>> THEN TRUE
    ELSE IF Head(a) # Head(b) THEN Head(a) < Head(b)
    ELSE TextLess(Tail(a), Tail(b))

\* binary collation of the strings that occur as identifiers
Collate(s) ==
    CASE s = "P1" -> 1
      [] s = "P2" -> 2
      [] s = "lamour" -> 3
      [] s = "sephora" -> 4
      [] OTHER -> 0

\* float(x): a number stays, NaN stays NaN; a non-numeric string raises ValueError
FloatRaises(c) == c.t = "text"
\* sqlite3 binds a float NaN as NULL
BindReal(c) == IF c.t = "nan" THEN Null ELSE c
\* float(x) if pd.notna(x) else 0.0
FloatOrZero(c) == IF c.t = "nan" THEN Num(0) ELSE c

BatchesOf(S) == UNION {[1..n -> S] : n \in 0..MaxBatch}

(***************************************************************************)
(* Inputs of the storage layer                                             *)
(***************************************************************************)
PriceRow(ts, p, s, c) ==
    [timestamp |-> ts, product_id |-> p, supplier |-> s, price |-> c,
     currency |-> "CAD", source_name |-> "csv"]

GoodPriceRows == {PriceRow(ts, "P1", s, Num(10)) : ts \in Timestamps, s \in Suppliers}

PriceInputs ==
    GoodPriceRows \cup
    {PriceRow([day |-> 1, tod |-> 0], "P1", "sephora", Text),
     PriceRow([day |-> 1, tod |-> 0], Unbindable, "sephora", Num(10))}

\* the numeric fields of variant k differ from those of every other variant
MetricRow(d, p, s, k) ==
    [date |-> d, product_id |-> p, supplier |-> s,
     open_price |-> Num(10 * k + 1), close_price |-> Num(10 * k + 2),
     high_price |-> Num(10 * k + 3), low_price |-> Num(10 * k),
     daily_return |-> Num(k), rolling_avg_7d |-> Num(10 * k + 4),
     volatility_7d |-> Num(k + 5)]

GoodMetricRows == {MetricRow("2024-01-01", "P1", s, k) : s \in Suppliers, k \in 1..2}

MetricInputs ==
    GoodMetricRows \cup
    {[MetricRow("2024-01-01", "P1", "sephora", 3) EXCEPT !.daily_return = NaN],
     [MetricRow("2024-01-01", "P1", "sephora", 1) EXCEPT !.open_price = Text],
     MetricRow("2024-01-01", Unbindable, "sephora", 1)}

ComparisonRow(p, d, k) ==
    [product_id |-> p, snapshot_date |-> d,
     cheapest_supplier |-> IF k = 1 THEN "sephora" ELSE "lamour",
     cheapest_price |-> Num(10 * k),
     most_expensive_supplier |-> IF k = 1 THEN "lamour" ELSE "sephora",
     most_expensive_price |-> Num(10 * k + 5),
     price_spread |-> Num(5 + k), savings_pct |-> Num(20 + k),
     num_suppliers |-> Num(1 + k)]

GoodComparisonRows == {ComparisonRow(p, "2024-01-03", k) : p \in Products, k \in 1..2}

ComparisonInputs ==
    GoodComparisonRows \cup
    {[ComparisonRow("P1", "2024-01-03", 1) EXCEPT !.cheapest_price = Text],
     ComparisonRow(Unbindable, "2024-01-03", 1)}

(***************************************************************************)
(* upsert_prices                                                           *)
(***************************************************************************)
\* the parameter tuple of the INSERT; evaluating it raises ValueError when
\* float() fails, before the statement is executed
PriceParamsRaise(row) == FloatRaises(row.price)

\* cursor.execute raises sqlite3.Error for a parameter it cannot bind
PriceExecuteFails(row) ==
    row.product_id = Unbindable \/ row.supplier = Unbindable

\* a faulty variant: a row equal to a stored one is not inserted again
InsertPriceOnce(tbl, row) ==
    IF \E i \in 1..Len(tbl) :
           /\ tbl[i].timestamp = StrTimestamp(row.timestamp)
           /\ tbl[i].product_id = row.product_id
           /\ tbl[i].supplier = row.supplier
           /\ tbl[i].price = BindReal(row.price)
    THEN tbl
    ELSE Append(tbl, [id |-> Len(tbl) + 1,
                      timestamp |-> StrTimestamp(row.timestamp),
                      product_id |-> row.product_id,
                      supplier |-> row.supplier,
                      price |-> BindReal(row.price),
                      currency |-> row.currency,
                      source_name |-> row.source_name])

\* INSERT INTO prices: always a new row, id from AUTOINCREMENT
InsertPrice(tbl, row) ==
    Append(tbl, [id |-> Len(tbl) + 1,
                 timestamp |-> StrTimestamp(row.timestamp),
                 product_id |-> row.product_id,
                 supplier |-> row.supplier,
                 price |-> BindReal(row.price),
                 currency |-> row.currency,
                 source_name |-> row.source_name])

\* the loop over df.iterrows(): acc is [tbl, n, raised]
RECURSIVE PricesLoop(_, _, _)
PricesLoop(acc, batch, i) ==
    IF i > Len(batch) THEN acc
    ELSE IF PriceParamsRaise(batch[i]) THEN [acc EXCEPT !.raised = TRUE]
    ELSE IF PriceExecuteFails(batch[i]) THEN PricesLoop(acc, batch, i + 1)
    ELSE PricesLoop([acc EXCEPT !.tbl = InsertPrice(acc.tbl, batch[i]), !.n = acc.n + 1],
                    batch, i + 1)

\* an exception that leaves the function skips conn.commit(): the pipeline
\* does not catch it, the process ends and the open transaction is rolled back
Committed(tbl, res) == IF res.raised THEN tbl ELSE res.tbl

upsert_prices(tbl, batch) ==
    IF batch = <<>> THEN [tbl |-> tbl, n |-> 0, raised |-> FALSE]
    ELSE LET res == PricesLoop([tbl |-> tbl, n |-> 0, raised |-> FALSE], batch, 1)
         IN [res EXCEPT !.tbl = Committed(tbl, res)]

(***************************************************************************)
(* upsert_metrics                                                          *)
(***************************************************************************)
MetricParamsRaise(row) ==
    \/ FloatRaises(row.open_price) \/ FloatRaises(row.close_price)
    \/ FloatRaises(row.high_price) \/ FloatRaises(row.low_price)
    \/ FloatRaises(row.daily_return) \/ FloatRaises(row.rolling_avg_7d)
    \/ FloatRaises(row.volatility_7d)

\* the ten parameters in the order the call passes them, named by the column
\* each position fills: (date, product_id, supplier, open_price, ...)
MetricParams(row) ==
    [date |-> row.date,
     product_id |-> row.supplier,
     supplier |-> row.product_id,
     open_price |-> BindReal(row.open_price),
     close_price |-> BindReal(row.close_price),
     high_price |-> BindReal(row.high_price),
     low_price |-> BindReal(row.low_price),
     daily_return |-> FloatOrZero(row.daily_return),
     rolling_avg_7d |-> FloatOrZero(row.rolling_avg_7d),
     volatility_7d |-> FloatOrZero(row.volatility_7d)]

MetricExecuteFails(row) ==
    row.product_id = Unbindable \/ row.supplier = Unbindable

\* UNIQUE (date, product_id, supplier): the stored rows an insert collides with
MetricConflicts(tbl, b) ==
    {i \in 1..Len(tbl) : /\ tbl[i].date = b.date
                         /\ tbl[i].product_id = b.product_id
                         /\ tbl[i].supplier = b.supplier}

\* ON CONFLICT ... DO UPDATE SET: the columns the statement lists
UpdateMetric(old, b) ==
    [old EXCEPT !.open_price = b.open_price,
                !.close_price = b.close_price,
                !.low_price = b.low_price,
                !.daily_return = b.daily_return,
                !.rolling_avg_7d = b.rolling_avg_7d,
                !.volatility_7d = b.volatility_7d]

NewMetric(tbl, b) ==
    [id |-> Len(tbl) + 1, date |-> b.date, product_id |-> b.product_id,
     supplier |-> b.supplier, open_price |-> b.open_price,
     close_price |-> b.close_price, high_price |-> b.high_price,
     low_price |-> b.low_price, daily_return |-> b.daily_return,
     rolling_avg_7d |-> b.rolling_avg_7d, volatility_7d |-> b.volatility_7d]

\* a faulty variant: the insert ignores the uniqueness constraint
InsertMetricAlways(tbl, b) == Append(tbl, NewMetric(tbl, b))

\* INSERT ... ON CONFLICT(date, product_id, supplier) DO UPDATE
InsertMetric(tbl, b) ==
    IF MetricConflicts(tbl, b) = {} THEN Append(tbl, NewMetric(tbl, b))
    ELSE [i \in 1..Len(tbl) |->
            IF i \in MetricConflicts(tbl, b) THEN UpdateMetric(tbl[i], b) ELSE tbl[i]]

RECURSIVE MetricsLoop(_, _, _)
MetricsLoop(acc, batch, i) ==
    IF i > Len(batch) THEN acc
    ELSE IF MetricParamsRaise(batch[i]) THEN [acc EXCEPT !.raised = TRUE]
    ELSE IF MetricExecuteFails(batch[i]) THEN MetricsLoop(acc, batch, i + 1)
    ELSE MetricsLoop([acc EXCEPT !.tbl = InsertMetric(acc.tbl, MetricParams(batch[i])),
                                 !.n = acc.n + 1],
                     batch, i + 1)

upsert_metrics(tbl, batch) ==
    IF batch = <<>> THEN [tbl |-> tbl, n |-> 0, raised |-> FALSE]
    ELSE LET res == MetricsLoop([tbl |-> tbl, n |-> 0, raised |-> FALSE], batch, 1)
         IN [res EXCEPT !.tbl = Committed(tbl, res)]

(***************************************************************************)
(* upsert_comparison                                                       *)
(***************************************************************************)
ComparisonParamsRaise(row) ==
    FloatRaises(row.cheapest_price) \/ FloatRaises(row.most_expensive_price)

\* price_spread, savings_pct and num_suppliers are passed as row.get gives them
ComparisonParams(row) ==
    [product_id |-> row.product_id,
     snapshot_date |-> row.snapshot_date,
     cheapest_supplier |-> row.cheapest_supplier,
     cheapest_price |-> BindReal(row.cheapest_price),
     most_expensive_supplier |-> row.most_expensive_supplier,
     most_expensive_price |-> BindReal(row.most_expensive_price),
     price_spread |-> BindReal(row.price_spread),
     savings_pct |-> BindReal(row.savings_pct),
     num_suppliers |-> BindReal(row.num_suppliers)]

ComparisonExecuteFails(row) == row.product_id = Unbindable

\* UNIQUE (product_id, snapshot_date)
ComparisonConflicts(tbl, b) ==
    {i \in 1..Len(tbl) : /\ tbl[i].product_id = b.product_id
                         /\ tbl[i].snapshot_date = b.snapshot_date}

\* a faulty variant: the update list leaves savings_pct out
UpdateComparisonPartial(old, b) ==
    [old EXCEPT !.cheapest_supplier = b.cheapest_supplier,
                !.cheapest_price = b.cheapest_price,
                !.most_expensive_supplier = b.most_expensive_supplier,
                !.most_expensive_price = b.most_expensive_price,
                !.price_spread = b.price_spread,
                !.num_suppliers = b.num_suppliers]

UpdateComparison(old, b) ==
    [old EXCEPT !.cheapest_supplier = b.cheapest_supplier,
                !.cheapest_price = b.cheapest_price,
                !.most_expensive_supplier = b.most_expensive_supplier,
                !.most_expensive_price = b.most_expensive_price,
                !.price_spread = b.price_spread,
                !.savings_pct = b.savings_pct,
                !.num_suppliers = b.num_suppliers]

NewComparison(tbl, b) ==
    [id |-> Len(tbl) + 1, product_id |-> b.product_id,
     snapshot_date |-> b.snapshot_date,
     cheapest_supplier |-> b.cheapest_supplier,
     cheapest_price |-> b.cheapest_price,
     most_expensive_supplier |-> b.most_expensive_supplier,
     most_expensive_price |-> b.most_expensive_price,
     price_spread |-> b.price_spread, savings_pct |-> b.savings_pct,
     num_suppliers |-> b.num_suppliers]

\* a faulty variant: a new key is written over the first stored row
InsertComparisonOverFirst(tbl, b) ==
    IF ComparisonConflicts(tbl, b) = {}
    THEN IF tbl = <<>> THEN Append(tbl, NewComparison(tbl, b))
         ELSE <<NewComparison(<<>>, b)>> \o Tail(tbl)
    ELSE [i \in 1..Len(tbl) |->
            IF i \in ComparisonConflicts(tbl, b) THEN UpdateComparison(tbl[i], b)
            ELSE tbl[i]]

\* INSERT ... ON CONFLICT (product_id, snapshot_date) DO UPDATE
InsertComparison(tbl, b) ==
    IF ComparisonConflicts(tbl, b) = {} THEN Append(tbl, NewComparison(tbl, b))
    ELSE [i \in 1..Len(tbl) |->
            IF i \in ComparisonConflicts(tbl, b) THEN UpdateComparison(tbl[i], b)
            ELSE tbl[i]]

RECURSIVE ComparisonLoop(_, _, _)
ComparisonLoop(acc, batch, i) ==
    IF i > Len(batch) THEN acc
    ELSE IF ComparisonParamsRaise(batch[i]) THEN [acc EXCEPT !.raised = TRUE]
    ELSE IF ComparisonExecuteFails(batch[i]) THEN ComparisonLoop(acc, batch, i + 1)
    ELSE ComparisonLoop([acc EXCEPT
                            !.tbl = InsertComparison(acc.tbl, ComparisonParams(batch[i])),
                            !.n = acc.n + 1],
                        batch, i + 1)

upsert_comparison(tbl, batch) ==
    IF batch = <<>> THEN [tbl |-> tbl, n |-> 0, raised |-> FALSE]
    ELSE LET res == ComparisonLoop([tbl |-> tbl, n |-> 0, raised |-> FALSE], batch, 1)
         IN [res EXCEPT !.tbl = Committed(tbl, res)]

(***************************************************************************)
(* query_latest_prices                                                     *)
(***************************************************************************)
\* the subquery: MAX(timestamp) of the text column, GROUP BY supplier, product_id
MaxTimestamp(tbl, s, p) ==
    CHOOSE m \in {tbl[i].timestamp : i \in {j \in 1..Len(tbl) :
                        tbl[j].supplier = s /\ tbl[j].product_id = p}} :
        \A i \in 1..Len(tbl) :
            (tbl[i].supplier = s /\ tbl[i].product_id = p)
                => ~TextLess(m, tbl[i].timestamp)

\* the INNER JOIN: every stored row whose timestamp equals its group's maximum
LatestIds(tbl) ==
    {i \in 1..Len(tbl) :
        tbl[i].timestamp = MaxTimestamp(tbl, tbl[i].supplier, tbl[i].product_id)}

\* ORDER BY product_id, supplier
LatestOrdered(a, b) ==
    \/ Collate(a.product_id) < Collate(b.product_id)
    \/ /\ a.product_id = b.product_id
       /\ Collate(a.supplier) <= Collate(b.supplier)

\* df["timestamp"] = pd.to_datetime(df["timestamp"])
ReadPrice(row) == [row EXCEPT !.timestamp = ToDatetime(row.timestamp)]

\* the results the query may give: rows that tie in the ORDER BY come in the
\* order the store chooses
query_latest_prices(tbl) ==
    LET ids == LatestIds(tbl)
        n == Cardinality(ids)
    IN {[k \in 1..n |-> ReadPrice(tbl[f[k]])] :
            f \in {g \in [1..n -> ids] :
                     /\ \A x, y \in 1..n : x # y => g[x] # g[y]
                     /\ \A x, y \in 1..n : x < y => LatestOrdered(tbl[g[x]], tbl[g[y]])}}

(***************************************************************************)
(* query_prices, query_metrics, query_comparison                           *)
(***************************************************************************)
\* an optional date argument left at None; an optional product_id left at
\* None counts as the empty string does
None == <<>>
NoProduct == ""

\* a date-only argument "YYYY-MM-DD" as the text the store compares with the
\* column: the first part of a stored timestamp text
DateOnly(day) == <<day>>

\* the date texts that occur in the metrics and comparison tables
DateText(d) ==
    CASE d = "2024-01-01" -> <<1>>
      [] d = "2024-01-02" -> <<2>>
      [] d = "2024-01-03" -> <<3>>
      [] OTHER -> <<0>>

\* column >= ? and column <= ? on TEXT values
TextGE(a, b) == ~TextLess(a, b)
TextLE(a, b) == ~TextLess(b, a)

\* the orders in which the store may return the selected rows under an
\* ORDER BY: before holds the pairs <<i, j>> of rows such that i may come
\* before j; rows that tie come in the order the store chooses
Orderings(ids, before) ==
    {f \in [1..Cardinality(ids) -> ids] :
        /\ \A x, y \in 1..Cardinality(ids) : x # y => f[x] # f[y]
        /\ \A x, y \in 1..Cardinality(ids) : x < y => <<f[x], f[y]>> \in before}

\* ORDER BY timestamp, supplier, product_id
PricesOrdered(a, b) ==
    \/ TextLess(a.timestamp, b.timestamp)
    \/ /\ a.timestamp = b.timestamp
       /\ \/ Collate(a.supplier) < Collate(b.supplier)
          \/ /\ a.supplier = b.supplier
             /\ Collate(a.product_id) <= Collate(b.product_id)

\* WHERE 1 = 1 [AND timestamp >= ?] [AND timestamp <= ?] [AND product_id = ?]
PricesSelected(tbl, start_date, end_date, product_id) ==
    {i \in 1..Len(tbl) :
        /\ start_date = None \/ TextGE(tbl[i].timestamp, start_date)
        /\ end_date = None \/ TextLE(tbl[i].timestamp, end_date)
        /\ product_id = NoProduct \/ tbl[i].product_id = product_id}

query_prices(tbl, start_date, end_date, product_id) ==
    {[k \in 1..Len(f) |-> ReadPrice(tbl[f[k]])] :
        f \in Orderings(PricesSelected(tbl, start_date, end_date, product_id),
                        {p \in (1..Len(tbl)) \X (1..Len(tbl)) :
                            PricesOrdered(tbl[p[1]], tbl[p[2]])})}

\* ORDER BY date, supplier, product_id
MetricsOrdered(a, b) ==
    \/ TextLess(DateText(a.date), DateText(b.date))
    \/ /\ a.date = b.date
       /\ \/ Collate(a.supplier) < Collate(b.supplier)
          \/ /\ a.supplier = b.supplier
             /\ Collate(a.product_id) <= Collate(b.product_id)

\* WHERE 1 = 1 [AND date >= ?] [AND date <= ?]
MetricsSelected(tbl, start_date, end_date) ==
    {i \in 1..Len(tbl) :
        /\ start_date = None \/ TextGE(DateText(tbl[i].date), start_date)
        /\ end_date = None \/ TextLE(DateText(tbl[i].date), end_date)}

query_metrics(tbl, start_date, end_date) ==
    {[k \in 1..Len(f) |-> tbl[f[k]]] :
        f \in Orderings(MetricsSelected(tbl, start_date, end_date),
                        {p \in (1..Len(tbl)) \X (1..Len(tbl)) :
                            MetricsOrdered(tbl[p[1]], tbl[p[2]])})}

\* ORDER BY snapshot_date, product_id
ComparisonOrdered(a, b) ==
    \/ TextLess(DateText(a.snapshot_date), DateText(b.snapshot_date))
    \/ /\ a.snapshot_date = b.snapshot_date
       /\ Collate(a.product_id) <= Collate(b.product_id)

\* [WHERE snapshot_date = ?]
ComparisonSelected(tbl, snapshot_date) ==
    {i \in 1..Len(tbl) :
        snapshot_date = None \/ DateText(tbl[i].snapshot_date) = snapshot_date}

query_comparison(tbl, snapshot_date) ==
    {[k \in 1..Len(f) |-> tbl[f[k]]] :
        f \in Orderings(ComparisonSelected(tbl, snapshot_date),
                        {p \in (1..Len(tbl)) \X (1..Len(tbl)) :
                            ComparisonOrdered(tbl[p[1]], tbl[p[2]])})}

(***************************************************************************)
(* The source registry                                                     *)
(***************************************************************************)
MaxSources == 2
MaxFetch == 2

\* DataSource.name of the sources main.py can register
SourceNames == {"csv_dir", "lamour_scraper"}

\* a raw record as a source returns it (its columns are the source's own)
RawRecords == {[product_id |-> "P1"], [product_id |-> "P2"]}

\* what one call of source.fetch() does: it returns a batch or it raises
FetchOutcomes ==
    {[raised |-> TRUE, records |-> <<>>]} \cup
    {[raised |-> FALSE, records |-> r] : r \in UNION {[1..n -> RawRecords] : n \in 0..MaxFetch}}

\* df["source_name"] = source.name
Tag(rec, name) ==
    [c \in DOMAIN rec \cup {"source_name"} |->
        IF c = "source_name" THEN name ELSE rec[c]]

TagAll(records, name) == [k \in 1..Len(records) |-> Tag(records[k], name)]

\* a faulty variant: the batch is put in front of the ones fetched before
PrependFrame(dataframes, df) == <<df>> \o dataframes

\* dataframes.append(df)
AppendFrame(dataframes, df) == Append(dataframes, df)

\* pd.concat(dataframes, ignore_index = True)
RECURSIVE Concat(_)
Concat(dataframes) ==
    IF dataframes = <<>> THEN <<>> ELSE Head(dataframes) \o Concat(Tail(dataframes))

\* the loop of fetch_all: acc is [called, dataframes, raised]
RECURSIVE FetchLoop(_, _, _, _)
FetchLoop(acc, srcs, outcomes, i) ==
    IF i > Len(srcs) THEN acc
    ELSE IF outcomes[i].raised
         THEN [acc EXCEPT !.called = Append(acc.called, srcs[i]), !.raised = TRUE]
         ELSE FetchLoop([acc EXCEPT
                            !.called = Append(acc.called, srcs[i]),
                            !.dataframes = AppendFrame(acc.dataframes,
                                                       TagAll(outcomes[i].records, srcs[i]))],
                        srcs, outcomes, i + 1)

\* fetch_all; pd.concat raises ValueError on an empty list of frames
fetch_all(srcs, outcomes) ==
    LET acc == FetchLoop([called |-> <<>>, dataframes |-> <<>>, raised |-> FALSE],
                         srcs, outcomes, 1)
    IN [status |-> IF acc.raised \/ acc.dataframes = <<>> THEN "raised" ELSE "ok",
        sources |-> srcs,
        outcomes |-> outcomes,
        called |-> acc.called,
        rows |-> IF acc.raised THEN <<>> ELSE Concat(acc.dataframes)]

NoFetch ==
    [status |-> "none", sources |-> <<>>, outcomes |-> <<>>, called |-> <<>>, rows |-> <<>>]

\* no fetch of the csv directory source yet
NoCsv == [status |-> "none", files |-> <<>>, rows |-> <<>>]

(***************************************************************************)
(* The cleaning stage                                                      *)
(*                                                                         *)
(* A frame is [columns, rows]: the column labels and, per row, a function  *)
(* from label to cell.  A cell is [t, s, n]: t = "str" (a string, s its    *)
(* pieces, " " being white space), "num" (a number n), "datetime" (a       *)
(* Timestamp, day n), "nan" (NaN / None) or "nat" (NaT).                   *)
(***************************************************************************)
CStr(pieces) == [t |-> "str", s |-> pieces, n |-> 0]
CNum(k) == [t |-> "num", s |-> <<>>, n |-> k]
CTime(k) == [t |-> "datetime", s |-> <<>>, n |-> k]
CNaN == [t |-> "nan", s |-> <<>>, n |-> 0]
CNaT == [t |-> "nat", s |-> <<>>, n |-> 0]

\* config.required_columns
required_columns == {"timestamp", "supplier", "product_id", "price", "currency"}

\* str.lower().str.strip() on the column labels that occur
LowerStripLabel(label) ==
    CASE label = "Timestamp" -> "timestamp"
      [] label = " supplier" -> "supplier"
      [] label = "Product_ID" -> "product_id"
      [] label = "Price " -> "price"
      [] label = "CURRENCY" -> "currency"
      [] label = "Category" -> "category"
      [] OTHER -> label

\* str.strip() on a string: leading and trailing white space goes
RECURSIVE LStrip(_)
LStrip(pieces) ==
    IF pieces # <<>> /\ Head(pieces) = " " THEN LStrip(Tail(pieces)) ELSE pieces
RECURSIVE RStrip(_)
RStrip(pieces) ==
    IF pieces # <<>> /\ pieces[Len(pieces)] = " "
    THEN RStrip(SubSeq(pieces, 1, Len(pieces) - 1)) ELSE pieces
StripPieces(pieces) == RStrip(LStrip(pieces))

\* str.upper() on the pieces that occur
UpperPiece(x) ==
    CASE x = "p1" -> "P1"
      [] x = "cad" -> "CAD"
      [] x = "nan" -> "NAN"
      [] OTHER -> x
UpperPieces(pieces) == [k \in 1..Len(pieces) |-> UpperPiece(pieces[k])]

\* standardize_columns
standardize_columns(df) ==
    [columns |-> {LowerStripLabel(c) : c \in df.columns},
     rows |-> [k \in 1..Len(df.rows) |->
                [c \in {LowerStripLabel(x) : x \in df.columns} |->
                    df.rows[k][CHOOSE x \in df.columns : LowerStripLabel(x) = c]]]]

\* select_dtypes(include = ["object"]): a column that holds a string is of
\* object dtype
ObjectColumn(df, c) == \E k \in 1..Len(df.rows) : df.rows[k][c].t = "str"

\* Series.str.strip(): a string is stripped, any other value of an object
\* column comes back as NaN
StrStripCell(cell) == IF cell.t = "str" THEN CStr(StripPieces(cell.s)) ELSE CNaN

strip_string_columns(df) ==
    [df EXCEPT !.rows = [k \in 1..Len(df.rows) |->
        [c \in df.columns |->
            IF ObjectColumn(df, c) THEN StrStripCell(df.rows[k][c]) ELSE df.rows[k][c]]]]

\* pd.to_datetime(errors = "coerce")
CoerceDatetime(cell) ==
    CASE cell.t = "datetime" -> cell
      [] cell.t = "str" /\ cell.s = <<"2024-01-01">> -> CTime(1)
      [] cell.t = "str" /\ cell.s = <<"2024-01-02">> -> CTime(2)
      [] OTHER -> CNaT

\* pd.to_numeric(errors = "coerce")
CoerceNumeric(cell) ==
    CASE cell.t = "num" -> cell
      [] cell.t = "str" /\ cell.s = <<"10">> -> CNum(10)
      [] cell.t = "str" /\ cell.s = <<"-5">> -> CNum(-5)
      [] OTHER -> CNaN

\* astype(str): every value becomes its text, NaN the text "nan"
AsTypeStr(cell) ==
    CASE cell.t = "str" -> cell
      [] cell.t = "num" /\ cell.n = 10 -> CStr(<<"10">>)
      [] cell.t = "num" -> CStr(<<"-5">>)
      [] cell.t = "datetime" /\ cell.n = 1 -> CStr(<<"2024-01-01">>)
      [] cell.t = "datetime" -> CStr(<<"2024-01-02">>)
      [] cell.t = "nat" -> CStr(<<"NaT">>)
      [] OTHER -> CStr(<<"nan">>)

\* astype(str).str.upper()
UpperStr(cell) == CStr(UpperPieces(AsTypeStr(cell).s))

\* the conversion fix_data_types applies to a cell of column c
FixCell(c, cell) ==
    CASE c = "timestamp" -> CoerceDatetime(cell)
      [] c = "price" -> CoerceNumeric(cell)
      [] c = "product_id" -> UpperStr(cell)
      [] c = "currency" -> UpperStr(cell)
      [] OTHER -> cell

fix_data_types(df) ==
    [df EXCEPT !.rows = [k \in 1..Len(df.rows) |->
        [c \in df.columns |-> FixCell(c, df.rows[k][c])]]]

IsNull(cell) == cell.t = "nan" \/ cell.t = "nat"

\* fillna("Unknown")
FillUnknown(cell) == IF IsNull(cell) THEN CStr(<<"Unknown">>) ELSE cell

\* the rows dropna(subset = required_columns) keeps, as their positions
KeptRows(df) ==
    {k \in 1..Len(df.rows) : \A c \in required_columns : ~IsNull(df.rows[k][c])}

RECURSIVE SortedSeq(_)
SortedSeq(S) ==
    IF S = {} THEN <<>>
    ELSE LET m == CHOOSE x \in S : \A y \in S : x <= y
         IN <<m>> \o SortedSeq(S \ {m})

\* handle_missing_values; dropna raises KeyError when a required column is
\* not in the frame.  A kept row carries its index label (its position in
\* the raw batch).
handle_missing_values(df) ==
    IF ~(required_columns \subseteq df.columns)
    THEN [status |-> "raised", columns |-> df.columns, rows |-> <<>>]
    ELSE LET kept == SortedSeq(KeptRows(df))
         IN [status |-> "ok",
             columns |-> df.columns,
             rows |-> [k \in 1..Len(kept) |->
                        [index |-> kept[k],
                         cells |-> [c \in df.columns |->
                            IF c = "category" THEN FillUnknown(df.rows[kept[k]][c])
                            ELSE df.rows[kept[k]][c]]]]]

clean_data(df) ==
    handle_missing_values(fix_data_types(strip_string_columns(standardize_columns(df))))

\* raw batches
PlainLabels ==
    [timestamp |-> "timestamp", supplier |-> "supplier", product_id |-> "product_id",
     price |-> "price", currency |-> "currency", category |-> "category"]
StyledLabels ==
    [timestamp |-> "Timestamp", supplier |-> " supplier", product_id |-> "Product_ID",
     price |-> "Price ", currency |-> "CURRENCY", category |-> "Category"]

GoodRaw ==
    [timestamp |-> CTime(1), supplier |-> CStr(<<"sephora">>),
     product_id |-> CStr(<<"p1">>), price |-> CNum(10), currency |-> CStr(<<"cad">>),
     category |-> CStr(<<"skincare">>)]

RawSamples ==
    {GoodRaw,
     [GoodRaw EXCEPT !.timestamp = CStr(<<"2024-01-02">>), !.price = CStr(<<" ", "10">>),
                     !.product_id = CStr(<<" ", "p1", " ">>), !.category = CNaN],
     [GoodRaw EXCEPT !.timestamp = CNaT],
     [GoodRaw EXCEPT !.timestamp = CStr(<<"yesterday">>)],
     [GoodRaw EXCEPT !.price = CNaN],
     [GoodRaw EXCEPT !.price = CStr(<<"abc">>)],
     [GoodRaw EXCEPT !.supplier = CNaN],
     [GoodRaw EXCEPT !.product_id = CNaN],
     [GoodRaw EXCEPT !.currency = CNaN]}

\* the frame of a batch under the given labels, with the named columns only
RawFrame(labels, names, batch) ==
    [columns |-> {labels[c] : c \in names},
     rows |-> [k \in 1..Len(batch) |->
                [x \in {labels[c] : c \in names} |->
                    batch[k][CHOOSE c \in names : labels[c] = x]]]]

ColumnSets ==
    {required_columns \cup {"category"}, required_columns, required_columns \ {"currency"}}

NoFrame == [status |-> "none", columns |-> {}, rows |-> <<>>]

(***************************************************************************)
(* init_schema                                                             *)
(***************************************************************************)
\* the tables and indexes the four scripts name
SchemaTables == {"prices", "daily_metrics", "price_comparison"}
SchemaIndexes ==
    {"idx_prices_timestamp", "idx_priced_product", "idx_metrics_date", "idx_comparison_date"}

\* a faulty variant: the tables are created anew, losing what they held
init_schema_recreate(db) ==
    [objects |-> SchemaTables \cup SchemaIndexes,
     prices |-> <<>>, daily_metrics |-> <<>>, price_comparison |-> <<>>]

\* CREATE TABLE IF NOT EXISTS / CREATE INDEX IF NOT EXISTS: an object that
\* exists is left as it is, a missing one is created empty; db is
\* [objects, prices, daily_metrics, price_comparison]
init_schema(db) ==
    [objects |-> db.objects \cup SchemaTables \cup SchemaIndexes,
     prices |-> IF "prices" \in db.objects THEN db.prices ELSE <<>>,
     daily_metrics |-> IF "daily_metrics" \in db.objects THEN db.daily_metrics ELSE <<>>,
     price_comparison |->
        IF "price_comparison" \in db.objects THEN db.price_comparison ELSE <<>>]

(***************************************************************************)
(* The storage layer as a state machine                                    *)
(***************************************************************************)
\* no concurrent writer has a batch to store; no pipeline run is under way.
\* run is the state of the process that executes pipeline(args): pc the
\* stage it is at, db0 the tables as the run found them, saved the rows the
\* run wrote to rejected_rows.csv, exported the files export_all wrote,
\* stages the stages executed so far
NoWriters == <<>>
NoRun ==
    [status |-> "idle", pc |-> 0, outcome |-> "",
     args |-> [source_names |-> {}, start |-> 0, end |-> 0,
               compare |-> FALSE, skip_metrics |-> FALSE],
     db0 |-> [prices |-> <<>>, daily_metrics |-> <<>>, price_comparison |-> <<>>],
     valid_df |-> <<>>, rejected_df |-> <<>>, saved |-> <<>>,
     metrics_df |-> <<>>, comparison_df |-> <<>>,
     exported |-> [prices |-> <<>>, metrics |-> <<>>, comparison |-> <<>>,
                   report |-> FALSE],
     stages |-> <<>>]

NoCall == [op |-> "none", batch |-> <<>>, ret |-> 0, raised |-> FALSE, rows |-> <<>>]

Returned(name, batch, res) ==
    [op |-> name, batch |-> batch, ret |-> IF res.raised THEN -1 ELSE res.n,
     raised |-> res.raised, rows |-> <<>>]

\* init_schema on a new database file: three empty tables; no source is
\* registered and no batch is in flight
Init ==
    /\ prices = <<>>
    /\ daily_metrics = <<>>
    /\ price_comparison = <<>>
    /\ call = NoCall
    /\ sources = <<>>
    /\ fetched = NoFetch
    /\ csv = NoCsv
    /\ raw_df = NoFrame
    /\ clean_df = NoFrame
    /\ schema = SchemaTables \cup SchemaIndexes
    /\ writers = NoWriters
    /\ run = NoRun

UpsertPrices(inputs) ==
    \E batch \in BatchesOf(inputs) :
        /\ Len(prices) + Len(batch) <= MaxPrices
        /\ LET res == upsert_prices(prices, batch)
           IN /\ prices' = res.tbl
              /\ call' = Returned("upsert_prices", batch, res)
        /\ UNCHANGED <<daily_metrics, price_comparison, registryVars, cleanVars, runVars>>

UpsertMetrics(inputs) ==
    \E batch \in BatchesOf(inputs) :
        /\ LET res == upsert_metrics(daily_metrics, batch)
           IN /\ daily_metrics' = res.tbl
              /\ call' = Returned("upsert_metrics", batch, res)
        /\ UNCHANGED <<prices, price_comparison, registryVars, cleanVars, runVars>>

UpsertComparison(inputs) ==
    \E batch \in BatchesOf(inputs) :
        /\ LET res == upsert_comparison(price_comparison, batch)
           IN /\ price_comparison' = res.tbl
              /\ call' = Returned("upsert_comparison", batch, res)
        /\ UNCHANGED <<prices, daily_metrics, registryVars, cleanVars, runVars>>

QueryLatestPrices ==
    \E rows \in query_latest_prices(prices) :
        /\ call' = [NoCall EXCEPT !.op = "query_latest_prices", !.rows = rows]
        /\ UNCHANGED <<prices, daily_metrics, price_comparison, registryVars, cleanVars, runVars>>

\* the arguments the queries are called with
QueryDays == {None, DateOnly(1), DateOnly(2)}
QueryProducts == {NoProduct, "P1"}
SnapshotDates == {None, DateText("2024-01-03")}

QueryPrices ==
    \E start_date \in QueryDays, end_date \in QueryDays, product_id \in QueryProducts :
        \E rows \in query_prices(prices, start_date, end_date, product_id) :
            /\ call' = [NoCall EXCEPT !.op = "query_prices",
                                      !.batch = <<start_date, end_date, product_id>>,
                                      !.rows = rows]
            /\ UNCHANGED <<prices, daily_metrics, price_comparison, registryVars, cleanVars,
                           runVars>>

QueryMetrics ==
    \E start_date \in QueryDays, end_date \in QueryDays :
        \E rows \in query_metrics(daily_metrics, start_date, end_date) :
            /\ call' = [NoCall EXCEPT !.op = "query_metrics",
                                      !.batch = <<start_date, end_date>>,
                                      !.rows = rows]
            /\ UNCHANGED <<prices, daily_metrics, price_comparison, registryVars, cleanVars,
                           runVars>>

QueryComparison ==
    \E snapshot_date \in SnapshotDates :
        \E rows \in query_comparison(price_comparison, snapshot_date) :
            /\ call' = [NoCall EXCEPT !.op = "query_comparison",
                                      !.batch = <<snapshot_date>>,
                                      !.rows = rows]
            /\ UNCHANGED <<prices, daily_metrics, price_comparison, registryVars, cleanVars,
                           runVars>>

\* the three upserts against one database, as repeated pipeline runs issue them
RunPriceRows ==
    {PriceRow([day |-> 1, tod |-> 0], "P1", "sephora", Num(10)),
     PriceRow([day |-> 2, tod |-> 9], "P1", "lamour", Num(10))}
RunMetricRows ==
    {MetricRow("2024-01-01", "P1", "sephora", 1), MetricRow("2024-01-01", "P1", "lamour", 2)}
RunComparisonRows ==
    {ComparisonRow("P1", "2024-01-03", 1), ComparisonRow("P2", "2024-01-03", 2)}

NextStore ==
    \/ UpsertPrices(RunPriceRows)
    \/ UpsertMetrics(RunMetricRows)
    \/ UpsertComparison(RunComparisonRows)

Spec == Init /\ [][NextStore]_vars

\* one table at a time, over all the inputs
NextPrices == UpsertPrices(PriceInputs) \/ QueryLatestPrices \/ QueryPrices
SpecPrices == Init /\ [][NextPrices]_vars

NextMetrics == UpsertMetrics(MetricInputs) \/ QueryMetrics
SpecMetrics == Init /\ [][NextMetrics]_vars

NextComparison == UpsertComparison(ComparisonInputs) \/ QueryComparison
SpecComparison == Init /\ [][NextComparison]_vars

(***************************************************************************)
(* Properties of the storage layer                                         *)
(***************************************************************************)
MetricKey(r) == <<r.date, r.product_id, r.supplier>>
ComparisonKey(r) == <<r.product_id, r.snapshot_date>>

\* the rows of a batch that reach the table: no exception on the way
MetricStored(batch) ==
    {k \in 1..Len(batch) : ~MetricParamsRaise(batch[k]) /\ ~MetricExecuteFails(batch[k])}
ComparisonStored(batch) ==
    {k \in 1..Len(batch) :
        ~ComparisonParamsRaise(batch[k]) /\ ~ComparisonExecuteFails(batch[k])}

\* the last row of the batch written under each key is the submitted row the
\* table must show afterwards
LastForMetricKey(batch, k) ==
    \A m \in MetricStored(batch) :
        MetricKey(MetricParams(batch[m])) = MetricKey(MetricParams(batch[k])) => m <= k
LastForComparisonKey(batch, k) ==
    \A m \in ComparisonStored(batch) :
        ComparisonKey(ComparisonParams(batch[m])) = ComparisonKey(ComparisonParams(batch[k]))
            => m <= k

SameMetricNumbers(stored, b) ==
    /\ stored.open_price = b.open_price
    /\ stored.close_price = b.close_price
    /\ stored.high_price = b.high_price
    /\ stored.low_price = b.low_price
    /\ stored.daily_return = b.daily_return
    /\ stored.rolling_avg_7d = b.rolling_avg_7d
    /\ stored.volatility_7d = b.volatility_7d

SameComparisonFields(stored, b) ==
    /\ stored.cheapest_supplier = b.cheapest_supplier
    /\ stored.cheapest_price = b.cheapest_price
    /\ stored.most_expensive_supplier = b.most_expensive_supplier
    /\ stored.most_expensive_price = b.most_expensive_price
    /\ stored.price_spread = b.price_spread
    /\ stored.savings_pct = b.savings_pct
    /\ stored.num_suppliers = b.num_suppliers

\* C1: upsert_metrics overwrite law.  In every step of upsert_metrics that
\* returns, each submitted row whose (date, product_id, supplier) key was in
\* daily_metrics before the call leaves the stored row of that key with all
\* seven numeric fields (open, close, high, low, daily_return, rolling_avg_7d,
\* volatility_7d) equal to the submitted values.
C1_MetricsOverwriteAllNumeric ==
    [][(call'.op = "upsert_metrics" /\ ~call'.raised) =>
        \A k \in MetricStored(call'.batch) :
            LET b == MetricParams(call'.batch[k])
            IN (MetricConflicts(daily_metrics, b) # {} /\ LastForMetricKey(call'.batch, k))
                => /\ MetricConflicts(daily_metrics', b) # {}
                   /\ \A i \in MetricConflicts(daily_metrics', b) :
                         SameMetricNumbers(daily_metrics'[i], b)]_vars

\* C2: upsert_comparison overwrite law.  In every step of upsert_comparison
\* that returns, each submitted row whose (product_id, snapshot_date) key was
\* in price_comparison before the call leaves the stored row of that key with
\* cheapest_supplier, cheapest_price, most_expensive_supplier,
\* most_expensive_price, price_spread, savings_pct and num_suppliers equal to
\* the submitted values.
C2_ComparisonOverwriteAll ==
    [][(call'.op = "upsert_comparison" /\ ~call'.raised) =>
        \A k \in ComparisonStored(call'.batch) :
            LET b == ComparisonParams(call'.batch[k])
            IN (ComparisonConflicts(price_comparison, b) # {}
                    /\ LastForComparisonKey(call'.batch, k))
                => /\ ComparisonConflicts(price_comparison', b) # {}
                   /\ \A i \in ComparisonConflicts(price_comparison', b) :
                         SameComparisonFields(price_comparison'[i], b)]_vars

\* C2 witness: a one-row batch has just been written over the first of two
\* stored comparison rows, which now shows the second variant's values
C2_Witness ==
    /\ call.op = "upsert_comparison"
    /\ call.batch = <<ComparisonRow("P1", "2024-01-03", 2)>>
    /\ Len(price_comparison) = 2
    /\ ComparisonKey(price_comparison[1]) = <<"P1", "2024-01-03">>
    /\ SameComparisonFields(price_comparison[1],
                            ComparisonParams(ComparisonRow("P1", "2024-01-03", 2)))

\* C3: uniqueness.  In every reachable state daily_metrics holds at most one
\* row per (date, product_id, supplier) and price_comparison at most one row
\* per (product_id, snapshot_date).
C3_UniqueKeys ==
    /\ \A i, j \in 1..Len(daily_metrics) :
          MetricKey(daily_metrics[i]) = MetricKey(daily_metrics[j]) => i = j
    /\ \A i, j \in 1..Len(price_comparison) :
          ComparisonKey(price_comparison[i]) = ComparisonKey(price_comparison[j]) => i = j

\* C3 witness: one batch submitted the same metrics key twice after the price
\* rows were ingested twice, and both keyed tables are full
C3_Witness ==
    /\ call.op = "upsert_metrics"
    /\ Len(call.batch) = 2
    /\ call.batch[1] = call.batch[2]
    /\ Len(daily_metrics) = 2
    /\ Len(price_comparison) = 2
    /\ Len(prices) = 3

\* C4: frame of an upsert.  A step of upsert_metrics (resp. upsert_comparison)
\* adds exactly one row per new key of the batch, leaves every stored row
\* whose key the batch does not name as it was, and leaves the other two
\* tables unchanged; for a single row with a new key: one row more, nothing
\* else changed.
C4_UpsertFrame ==
    [][/\ call'.op = "upsert_metrics" =>
            LET keys == {MetricKey(MetricParams(call'.batch[k])) :
                            k \in MetricStored(call'.batch)}
                old == {MetricKey(daily_metrics[i]) : i \in 1..Len(daily_metrics)}
            IN /\ Len(daily_metrics') = Len(daily_metrics) + Cardinality(keys \ old)
               /\ \A i \in 1..Len(daily_metrics) :
                     MetricKey(daily_metrics[i]) \notin keys
                        => daily_metrics'[i] = daily_metrics[i]
               /\ prices' = prices
               /\ price_comparison' = price_comparison
       /\ call'.op = "upsert_comparison" =>
            LET keys == {ComparisonKey(ComparisonParams(call'.batch[k])) :
                            k \in ComparisonStored(call'.batch)}
                old == {ComparisonKey(price_comparison[i]) : i \in 1..Len(price_comparison)}
            IN /\ Len(price_comparison') = Len(price_comparison) + Cardinality(keys \ old)
               /\ \A i \in 1..Len(price_comparison) :
                     ComparisonKey(price_comparison[i]) \notin keys
                        => price_comparison'[i] = price_comparison[i]
               /\ prices' = prices
               /\ daily_metrics' = daily_metrics]_vars

\* C4 witness: a single comparison row with a new key has been added behind a
\* stored one while prices and daily_metrics hold rows
C4_Witness ==
    /\ call.op = "upsert_comparison"
    /\ Len(call.batch) = 1
    /\ Len(price_comparison) = 2
    /\ ComparisonKey(price_comparison[2]) = ComparisonKey(ComparisonParams(call.batch[1]))
    /\ ComparisonKey(price_comparison[1]) # ComparisonKey(price_comparison[2])
    /\ prices # <<>>
    /\ daily_metrics # <<>>

\* the rows of a price batch that reach the table
PriceStored(batch) ==
    {k \in 1..Len(batch) : ~PriceParamsRaise(batch[k]) /\ ~PriceExecuteFails(batch[k])}

\* a stored price row shows the submitted observation
ShowsPrice(stored, row) ==
    /\ stored.timestamp = StrTimestamp(row.timestamp)
    /\ stored.product_id = row.product_id
    /\ stored.supplier = row.supplier
    /\ stored.price = row.price
    /\ stored.currency = row.currency
    /\ stored.source_name = row.source_name

\* C5: upsert_prices is append-only.  A step of upsert_prices with a batch of
\* n well-formed rows returns n, keeps every stored row as it was and adds
\* exactly n rows behind them, the k-th showing the k-th submitted row, also
\* when the same rows are already stored.
C5_PricesAppendOnly ==
    [][(call'.op = "upsert_prices" /\ PriceStored(call'.batch) = 1..Len(call'.batch)) =>
        LET n == Len(call'.batch)
        IN /\ ~call'.raised
           /\ call'.ret = n
           /\ Len(prices') = Len(prices) + n
           /\ \A i \in 1..Len(prices) : prices'[i] = prices[i]
           /\ \A k \in 1..n : ShowsPrice(prices'[Len(prices) + k], call'.batch[k])]_vars

\* C5 witness: the batch just submitted was already stored, and the table now
\* holds the same observation twice
C5_Witness ==
    /\ call.op = "upsert_prices"
    /\ Len(call.batch) = 1
    /\ call.ret = 1
    /\ Len(prices) = 2
    /\ ShowsPrice(prices[1], call.batch[1])
    /\ ShowsPrice(prices[2], call.batch[1])

\* C6: per-row failure isolation.  After upsert_prices on any batch the call
\* has returned (nothing was raised), the returned count is the number of
\* rows of the batch that can be stored, and a failing row (a price that is
\* not a number, a value that cannot be bound) did not stop the others.
C6_RowFailureIsolated ==
    call.op = "upsert_prices" =>
        /\ ~call.raised
        /\ call.ret = Cardinality(PriceStored(call.batch))

\* C7: query_latest_prices returns, for every (supplier, product_id) pair in
\* prices, exactly one row, and that row carries the pair's maximum
\* timestamp.
C7_OneLatestRowPerPair ==
    call.op = "query_latest_prices" =>
        \A i \in 1..Len(prices) :
            LET hits == {k \in 1..Len(call.rows) :
                            /\ call.rows[k].supplier = prices[i].supplier
                            /\ call.rows[k].product_id = prices[i].product_id}
            IN /\ Cardinality(hits) = 1
               /\ \A k \in hits :
                     \A j \in 1..Len(prices) :
                        (prices[j].supplier = prices[i].supplier
                            /\ prices[j].product_id = prices[i].product_id)
                          => ~TextLess(StrTimestamp(call.rows[k].timestamp),
                                       prices[j].timestamp)

(***************************************************************************)
(* The registry as a state machine                                         *)
(***************************************************************************)
\* setup_sources registers the sources of a run, then pipeline calls
\* fetch_all once on the registry it built
Register ==
    \E name \in SourceNames :
        /\ fetched.status = "none"
        /\ Len(sources) < MaxSources
        /\ sources' = Append(sources, name)
        /\ UNCHANGED <<fetched, csv, storeVars, cleanVars, runVars>>

FetchAll ==
    \E outcomes \in [1..Len(sources) -> FetchOutcomes] :
        /\ fetched.status = "none"
        /\ fetched' = fetch_all(sources, outcomes)
        /\ UNCHANGED <<sources, csv, storeVars, cleanVars, runVars>>

NextRegistry == Register \/ FetchAll

SpecRegistry == Init /\ [][NextRegistry]_vars

\* where the batch of source i starts in the combined batch
RECURSIVE Offset(_, _)
Offset(outcomes, i) ==
    IF i <= 1 THEN 0 ELSE Offset(outcomes, i - 1) + Len(outcomes[i - 1].records)

\* C8: registry aggregation.  When fetch_all returns, it has called fetch on
\* every registered source in registration order, and the combined batch is
\* the sources' batches one after the other in that order, each record
\* unchanged but for source_name, which is the name of its source; a source
\* with an empty batch takes no place in it.
C8_FetchAllConcatenatesTagged ==
    fetched.status = "ok" =>
        LET oc == fetched.outcomes
            n == Len(fetched.sources)
        IN /\ fetched.called = fetched.sources
           /\ Len(fetched.rows) = Offset(oc, n + 1)
           /\ \A i \in 1..n : \A j \in 1..Len(oc[i].records) :
                 LET row == fetched.rows[Offset(oc, i) + j]
                 IN /\ row.source_name = fetched.sources[i]
                    /\ row.product_id = oc[i].records[j].product_id

\* C8 witness: two sources, the first returned nothing and the second two
\* records, which make up the combined batch
C8_Witness ==
    /\ fetched.status = "ok"
    /\ Len(fetched.sources) = 2
    /\ fetched.sources[1] # fetched.sources[2]
    /\ fetched.outcomes[1].records = <<>>
    /\ Len(fetched.outcomes[2].records) = 2
    /\ Len(fetched.rows) = 2

\* C9: ingestion failure isolation.  After fetch_all on a registry in which a
\* source's fetch raised, the call has returned the tagged records of all
\* the other sources in registration order.
C9_FetchFailureIsolated ==
    (fetched.status # "none" /\ \E i \in 1..Len(fetched.sources) : fetched.outcomes[i].raised) =>
        /\ fetched.status = "ok"
        /\ \A i \in 1..Len(fetched.sources) :
              ~fetched.outcomes[i].raised =>
                  \A j \in 1..Len(fetched.outcomes[i].records) :
                      \E k \in 1..Len(fetched.rows) :
                          /\ fetched.rows[k].source_name = fetched.sources[i]
                          /\ fetched.rows[k].product_id
                                = fetched.outcomes[i].records[j].product_id

(***************************************************************************)
(* The cleaning stage as a state machine                                   *)
(***************************************************************************)
\* pipeline: clean_df = clean_data(raw_df), for a raw batch that is not empty
CleanData ==
    \E labels \in {PlainLabels, StyledLabels}, names \in ColumnSets,
       batch \in BatchesOf(RawSamples) :
        /\ batch # <<>>
        /\ raw_df.status = "none"
        /\ raw_df' = [status |-> "raw"] @@ RawFrame(labels, names, batch)
        /\ clean_df' = clean_data(RawFrame(labels, names, batch))
        /\ UNCHANGED <<storeVars, registryVars, runVars>>

NextClean == CleanData

SpecClean == Init /\ [][NextClean]_vars

\* a raw cell that is missing, or that cannot be read as what its column holds
RawMissing(c, cell) ==
    LET v == IF cell.t = "str" THEN CStr(StripPieces(cell.s)) ELSE cell
    IN \/ v.t = "nan" \/ v.t = "nat"
       \/ c = "timestamp" /\ CoerceDatetime(v).t = "nat"
       \/ c = "price" /\ CoerceNumeric(v).t = "nan"

\* C10: cleaning leaves no missing required field.  Every row clean_data
\* returns has a non-null timestamp, supplier, product_id, price and
\* currency, and no row of the raw batch in which one of the five was
\* missing or unparseable is among the returned rows.
C10_NoMissingRequiredField ==
    clean_df.status = "ok" =>
        \A k \in 1..Len(clean_df.rows) :
            /\ \A c \in required_columns : ~IsNull(clean_df.rows[k].cells[c])
            /\ \A x \in raw_df.columns :
                  LowerStripLabel(x) \in required_columns
                    => ~RawMissing(LowerStripLabel(x),
                                   raw_df.rows[clean_df.rows[k].index][x])

(***************************************************************************)
(* Schema initialization                                                   *)
(***************************************************************************)
\* get_connection on a path where no database file exists: sqlite3.connect
\* creates an empty database
NewFile ==
    /\ prices = <<>>
    /\ daily_metrics = <<>>
    /\ price_comparison = <<>>
    /\ call = NoCall
    /\ sources = <<>>
    /\ fetched = NoFetch
    /\ csv = NoCsv
    /\ raw_df = NoFrame
    /\ clean_df = NoFrame
    /\ schema = {}
    /\ writers = NoWriters
    /\ run = NoRun

InitSchema ==
    LET db == init_schema([objects |-> schema, prices |-> prices,
                           daily_metrics |-> daily_metrics,
                           price_comparison |-> price_comparison])
    IN /\ schema' = db.objects
       /\ prices' = db.prices
       /\ daily_metrics' = db.daily_metrics
       /\ price_comparison' = db.price_comparison
       /\ call' = [NoCall EXCEPT !.op = "init_schema"]
       /\ UNCHANGED <<registryVars, cleanVars, writers, run>>

\* every run calls init_schema before its upserts
NextSchema ==
    \/ InitSchema
    \/ (SchemaTables \subseteq schema /\ NextStore)

SpecSchema == NewFile /\ [][NextSchema]_vars

DatetimeLess(a, b) == a.day < b.day \/ (a.day = b.day /\ a.tod < b.tod)

\* sorted by timestamp first, then supplier, then product_id
SortedByTimestamp(rows) ==
    \A x, y \in 1..Len(rows) : x < y =>
        \/ DatetimeLess(rows[x].timestamp, rows[y].timestamp)
        \/ /\ rows[x].timestamp = rows[y].timestamp
           /\ \/ Collate(rows[x].supplier) < Collate(rows[y].supplier)
              \/ /\ rows[x].supplier = rows[y].supplier
                 /\ Collate(rows[x].product_id) <= Collate(rows[y].product_id)

\* sorted by date first, then supplier, then product_id
SortedByDate(rows) ==
    \A x, y \in 1..Len(rows) : x < y =>
        \/ TextLess(DateText(rows[x].date), DateText(rows[y].date))
        \/ /\ rows[x].date = rows[y].date
           /\ \/ Collate(rows[x].supplier) < Collate(rows[y].supplier)
              \/ /\ rows[x].supplier = rows[y].supplier
                 /\ Collate(rows[x].product_id) <= Collate(rows[y].product_id)

\* sorted by snapshot date first, then product_id (the table has no supplier
\* column)
SortedBySnapshot(rows) ==
    \A x, y \in 1..Len(rows) : x < y =>
        \/ TextLess(DateText(rows[x].snapshot_date), DateText(rows[y].snapshot_date))
        \/ /\ rows[x].snapshot_date = rows[y].snapshot_date
           /\ Collate(rows[x].product_id) <= Collate(rows[y].product_id)

\* C16: query ordering.  The rows every query call returns are sorted by
\* timestamp (query_prices, query_latest_prices) or date (query_metrics,
\* query_comparison) first, then by supplier, then by product_id.
C16_QueriesSortedByDateSupplierProduct ==
    /\ call.op \in {"query_prices", "query_latest_prices"} => SortedByTimestamp(call.rows)
    /\ call.op = "query_metrics" => SortedByDate(call.rows)
    /\ call.op = "query_comparison" => SortedBySnapshot(call.rows)

\* C19: metrics round trip.  After a call of upsert_metrics that returned,
\* query_metrics without filters returns, for every row r the call stored, a
\* row with r's date whose supplier column is r.supplier and whose
\* product_id column is r.product_id.
C19_MetricsRoundTrip ==
    (call.op = "upsert_metrics" /\ ~call.raised) =>
        \A k \in MetricStored(call.batch) :
            \A rows \in query_metrics(daily_metrics, None, None) :
                \E i \in 1..Len(rows) :
                    /\ rows[i].date = call.batch[k].date
                    /\ rows[i].supplier = call.batch[k].supplier
                    /\ rows[i].product_id = call.batch[k].product_id

\* C20: date-range query.  query_prices(start, end) with two date-only
\* bounds and no product filter returns exactly the stored observations
\* whose timestamp falls on a day from start to end, the end date included.
C20_DateRangeInclusive ==
    (/\ call.op = "query_prices"
     /\ call.batch[1] # None
     /\ call.batch[2] # None
     /\ call.batch[3] = NoProduct) =>
        {call.rows[k].id : k \in 1..Len(call.rows)} =
            {prices[i].id : i \in {j \in 1..Len(prices) :
                /\ call.batch[1][1] <= ToDatetime(prices[j].timestamp).day
                /\ ToDatetime(prices[j].timestamp).day <= call.batch[2][1]}}

(***************************************************************************)
(* Concurrent pipeline runs writing daily_metrics                          *)
(*                                                                         *)
(* Each run has its own connection.  The first INSERT of a call opens the  *)
(* connection's transaction and takes the database's write lock, which     *)
(* conn.commit() releases.  An INSERT issued while another connection      *)
(* holds the lock waits; when the wait exceeds the connection's timeout it *)
(* raises sqlite3.OperationalError, which the loop catches.                *)
(***************************************************************************)
Runs == {"A", "B"}

\* the metrics a run computed: each run has its own values
RunVariant(r) == IF r = "A" THEN 1 ELSE 2
WriterRows(r) == {MetricRow("2024-01-01", "P1", s, RunVariant(r)) : s \in Suppliers}
WriterBatches(r) == UNION {[1..n -> WriterRows(r)] : n \in 1..MaxBatch}

\* writers is a sequence of [id, batch, next, n, open, done]: the calls of
\* upsert_metrics under way or finished, next the row the loop is at, n
\* rows_changed, open whether the call holds the write lock
Started(r) == \E w \in 1..Len(writers) : writers[w].id = r
LockFree(w) == \A v \in 1..Len(writers) : v # w => ~writers[v].open

StartWriter ==
    \E r \in Runs : \E batch \in WriterBatches(r) :
        /\ ~Started(r)
        /\ writers' = Append(writers, [id |-> r, batch |-> batch, next |-> 1, n |-> 0,
                                       open |-> FALSE, done |-> FALSE])
        /\ UNCHANGED <<storeVars, registryVars, cleanVars, schema, run>>

\* cursor.execute of the row the loop is at
WriterExecute(w) ==
    /\ ~writers[w].done
    /\ writers[w].next <= Len(writers[w].batch)
    /\ LockFree(w)
    /\ daily_metrics' =
            InsertMetric(daily_metrics, MetricParams(writers[w].batch[writers[w].next]))
    /\ writers' = [writers EXCEPT ![w].next = @ + 1, ![w].n = @ + 1, ![w].open = TRUE]
    /\ UNCHANGED <<prices, price_comparison, call, registryVars, cleanVars, schema, run>>

\* the lock is held by another connection for longer than the timeout:
\* except sqlite3.Error, the row is skipped
WriterBusy(w) ==
    /\ ~writers[w].done
    /\ writers[w].next <= Len(writers[w].batch)
    /\ ~LockFree(w)
    /\ writers' = [writers EXCEPT ![w].next = @ + 1]
    /\ UNCHANGED <<storeVars, registryVars, cleanVars, schema, run>>

\* conn.commit() after the loop
WriterCommit(w) ==
    /\ ~writers[w].done
    /\ writers[w].next > Len(writers[w].batch)
    /\ writers' = [writers EXCEPT ![w].open = FALSE, ![w].done = TRUE]
    /\ UNCHANGED <<storeVars, registryVars, cleanVars, schema, run>>

NextWriters ==
    \/ StartWriter
    \/ \E w \in 1..Len(writers) : WriterExecute(w)
    \/ \E w \in 1..Len(writers) : WriterBusy(w)
    \/ \E w \in 1..Len(writers) : WriterCommit(w)

SpecWriters == Init /\ [][NextWriters]_vars

\* C17: last writer wins.  Whenever a run's INSERT for a (date, product_id,
\* supplier) key executes, in any interleaving of the two runs, the table
\* afterwards holds exactly one row for that key and all seven numeric
\* fields of it (high_price included) are those of that INSERT, so the row
\* always shows the values of the run that wrote the key last.
C17_LastWriterWins ==
    [][\A w \in 1..Len(writers) :
        (writers'[w].n = writers[w].n + 1) =>
            LET b == MetricParams(writers[w].batch[writers[w].next])
            IN /\ Cardinality(MetricConflicts(daily_metrics', b)) = 1
               /\ \A i \in MetricConflicts(daily_metrics', b) :
                     SameMetricNumbers(daily_metrics'[i], b)]_vars

(***************************************************************************)
(* The pipeline run (main.py)                                              *)
(*                                                                         *)
(* Prices count in whole currency units, days are numbered from            *)
(* 2024-01-01 (day 1); a raw record is a function from column to cell.     *)
(***************************************************************************)
\* config.min_price (0.01) in hundredths of a unit, config.max_price
min_price_cents == 1
max_price == 1000000
valid_currencies == {"CAD", "RMB", "KRW", "JPY", "USD"}

\* the records the sources return: an observation of day 1, one of day 2,
\* one with a negative price and one in a currency outside the valid set
SephoraRaw == [c \in required_columns |-> GoodRaw[c]]
PipelineRaw ==
    {SephoraRaw,
     [SephoraRaw EXCEPT !.timestamp = CTime(2), !.supplier = CStr(<<"lamour">>),
                        !.price = CNum(20)],
     [SephoraRaw EXCEPT !.price = CNum(-5)],
     [SephoraRaw EXCEPT !.currency = CStr(<<"EUR">>)]}

\* the scraper builds every record with supplier "lamour"; the files of the
\* csv directory hold the other records
SourceRows(name) ==
    IF name = "lamour_scraper"
    THEN {r \in PipelineRaw : r.supplier = CStr(<<"lamour">>)}
    ELSE {r \in PipelineRaw : r.supplier # CStr(<<"lamour">>)}

\* the batch of the end-to-end scenario: five raw rows, one with a negative
\* price, one with currency EUR
EndToEndBatch ==
    <<SephoraRaw,
      [SephoraRaw EXCEPT !.price = CNum(-5)],
      [SephoraRaw EXCEPT !.timestamp = CTime(2)],
      [SephoraRaw EXCEPT !.currency = CStr(<<"EUR">>)],
      SephoraRaw>>

\* what the fetches of one run return: MaxBatch records in all at most, or
\* the end-to-end batch from the csv directory and nothing from the others
PipelineOutcomes(srcs) ==
    {o \in [1..Len(srcs) ->
                {[raised |-> TRUE, records |-> <<>>]} \cup
                {[raised |-> FALSE, records |-> b] : b \in BatchesOf(PipelineRaw)}] :
        /\ \A i \in 1..Len(srcs) :
              \A k \in 1..Len(o[i].records) : o[i].records[k] \in SourceRows(srcs[i])
        /\ Len(Concat([i \in 1..Len(srcs) |-> o[i].records])) <= MaxBatch}
    \cup
    {[i \in 1..Len(srcs) |->
        [raised |-> FALSE,
         records |-> IF srcs[i] = "csv_dir" THEN EndToEndBatch ELSE <<>>]]}

\* setup_sources: the known names are registered in the order of the ifs
setup_sources(source_names) ==
    (IF "csv" \in source_names THEN <<"csv_dir">> ELSE <<>>) \o
    (IF "lamour" \in source_names THEN <<"lamour_scraper">> ELSE <<>>)

\* the frame pd.concat returns for the tagged records
ConcatFrame(rows) ==
    LET cols == UNION {DOMAIN rows[k] : k \in 1..Len(rows)}
    IN [columns |-> cols,
        rows |-> [k \in 1..Len(rows) |->
                    [c \in cols |->
                        IF c \notin DOMAIN rows[k] THEN CNaN
                        ELSE IF c = "source_name" THEN CStr(<<rows[k][c]>>)
                        ELSE rows[k][c]]]]

\* a row passes the three rules of the validation stage
Accepted(cells, start, end) ==
    /\ min_price_cents <= 100 * cells.price.n
    /\ cells.price.n <= max_price
    /\ cells.currency.s \in {<<c>> : c \in valid_currencies}
    /\ start <= cells.timestamp.n
    /\ cells.timestamp.n <= end

\* run_quality_checks: (valid_df, rejected_df)
run_quality_checks(rows, start, end) ==
    LET Ok(r) == Accepted(r.cells, start, end)
        Bad(r) == ~Accepted(r.cells, start, end)
    IN <<SelectSeq(rows, Ok), SelectSeq(rows, Bad)>>

\* a row of valid_df as upsert_prices reads it: row["timestamp"] is a
\* Timestamp at midnight of its day
ToPriceRow(cells) ==
    [timestamp |-> [day |-> cells.timestamp.n, tod |-> 0],
     product_id |-> cells.product_id.s[1],
     supplier |-> cells.supplier.s[1],
     price |-> Num(cells.price.n),
     currency |-> cells.currency.s[1],
     source_name |-> cells.source_name.s[1]]

\* config.rolling_window_days
rolling_window_days == 7

\* str(date) of a day
DateStr(day) ==
    CASE day = 1 -> "2024-01-01"
      [] day = 2 -> "2024-01-02"
      [] OTHER -> "2024-01-03"

\* the date of the run, the snapshot date of its comparison
Today == DateStr(3)

RECURSIVE Sum(_)
Sum(f) ==
    IF DOMAIN f = {} THEN 0
    ELSE LET x == CHOOSE y \in DOMAIN f : TRUE
         IN f[x] + Sum([y \in DOMAIN f \ {x} |-> f[y]])

\* the square root, rounded down
ISqrt(n) == CHOOSE r \in 0..n : r * r <= n /\ (r + 1) * (r + 1) > n

\* all_metrics: one row per (date, supplier, product_id) of prices_df, the
\* rows of a group being in chronological order; daily_return in percent.
\* A group of a day is named by the position of its first row.
all_metrics(df) ==
    LET Series(i, j) ==
            df[i].supplier = df[j].supplier /\ df[i].product_id = df[j].product_id
        Same(i, j) == Series(i, j) /\ df[i].timestamp.day = df[j].timestamp.day
        Group(i) == {j \in 1..Len(df) : Same(i, j)}
        firsts == {i \in 1..Len(df) : \A j \in Group(i) : i <= j}
        Close(i) == df[CHOOSE j \in Group(i) : \A k \in Group(i) : k <= j].price.v
        High(i) == CHOOSE v \in {df[j].price.v : j \in Group(i)} :
                        \A j \in Group(i) : df[j].price.v <= v
        Low(i) == CHOOSE v \in {df[j].price.v : j \in Group(i)} :
                        \A j \in Group(i) : v <= df[j].price.v
        Earlier(i) ==
            {j \in firsts : Series(i, j) /\ df[j].timestamp.day < df[i].timestamp.day}
        Prev(i) == CHOOSE j \in Earlier(i) :
                        \A k \in Earlier(i) : df[k].timestamp.day <= df[j].timestamp.day
        Return(i) ==
            IF Earlier(i) = {} \/ Close(Prev(i)) = 0 THEN 0
            ELSE ((Close(i) - Close(Prev(i))) * 100) \div Close(Prev(i))
        Window(i) ==
            {j \in firsts :
                /\ Series(i, j)
                /\ df[i].timestamp.day - rolling_window_days < df[j].timestamp.day
                /\ df[j].timestamp.day <= df[i].timestamp.day}
        Returns(i) == {j \in Window(i) : Earlier(j) # {}}
        Mean(i) == Sum([j \in Returns(i) |-> Return(j)]) \div Cardinality(Returns(i))
        Volatility(i) ==
            IF Cardinality(Returns(i)) < 2 THEN 0
            ELSE ISqrt(Sum([j \in Returns(i) |-> (Return(j) - Mean(i)) * (Return(j) - Mean(i))])
                        \div Cardinality(Returns(i)))
        order == SortedSeq(firsts)
    IN [k \in 1..Len(order) |->
            [date |-> DateStr(df[order[k]].timestamp.day),
             product_id |-> df[order[k]].product_id,
             supplier |-> df[order[k]].supplier,
             open_price |-> Num(df[order[k]].price.v),
             close_price |-> Num(Close(order[k])),
             high_price |-> Num(High(order[k])),
             low_price |-> Num(Low(order[k])),
             daily_return |-> Num(Return(order[k])),
             rolling_avg_7d |->
                Num(Sum([j \in Window(order[k]) |-> Close(j)])
                        \div Cardinality(Window(order[k]))),
             volatility_7d |-> Num(Volatility(order[k]))]]

\* find_cheapest: one row per product_id of the latest prices; of several
\* rows with the lowest (highest) price the first in the given order counts
find_cheapest(latest, snapshot_date) ==
    LET Group(i) == {j \in 1..Len(latest) : latest[j].product_id = latest[i].product_id}
        firsts == {i \in 1..Len(latest) : \A j \in Group(i) : i <= j}
        Cheapest(i) ==
            CHOOSE j \in Group(i) :
                \A k \in Group(i) :
                    \/ latest[j].price.v < latest[k].price.v
                    \/ (latest[j].price.v = latest[k].price.v /\ j <= k)
        Dearest(i) ==
            CHOOSE j \in Group(i) :
                \A k \in Group(i) :
                    \/ latest[j].price.v > latest[k].price.v
                    \/ (latest[j].price.v = latest[k].price.v /\ j <= k)
        Spread(i) == latest[Dearest(i)].price.v - latest[Cheapest(i)].price.v
        order == SortedSeq(firsts)
    IN [k \in 1..Len(order) |->
            [product_id |-> latest[order[k]].product_id,
             snapshot_date |-> snapshot_date,
             cheapest_supplier |-> latest[Cheapest(order[k])].supplier,
             cheapest_price |-> Num(latest[Cheapest(order[k])].price.v),
             most_expensive_supplier |-> latest[Dearest(order[k])].supplier,
             most_expensive_price |-> Num(latest[Dearest(order[k])].price.v),
             price_spread |-> Num(Spread(order[k])),
             savings_pct |->
                Num(IF latest[Dearest(order[k])].price.v > 0
                    THEN (Spread(order[k]) * 100) \div latest[Dearest(order[k])].price.v
                    ELSE 0),
             num_suppliers |->
                Num(Cardinality({latest[j].supplier : j \in Group(order[k])}))]]

\* df.drop(columns = ["id", ...]) on the rows of a query
DropId(rows) == [k \in 1..Len(rows) |-> [c \in DOMAIN rows[k] \ {"id"} |-> rows[k][c]]]

\* export_all: the files a run may write (a query that returns no row
\* writes no file, shown as <<>>); db is [prices, daily_metrics,
\* price_comparison]
export_all(db, start_date, end_date) ==
    {[prices |-> DropId(p), metrics |-> DropId(m), comparison |-> DropId(c),
      report |-> c # <<>>] :
        p \in query_prices(db.prices, start_date, end_date, NoProduct),
        m \in query_metrics(db.daily_metrics, start_date, end_date),
        c \in query_comparison(db.price_comparison, None)}

(***************************************************************************)
(* The pipeline run as a state machine                                     *)
(***************************************************************************)
\* a faulty variant: the stages in another order, the metrics before the
\* prices are stored
pipeline_metrics_first ==
    <<"fetch", "clean", "validate", "save_rejected", "metrics", "upsert_metrics",
      "store", "compare", "upsert_comparison", "export">>

\* the body of pipeline(args) after setup_sources, in the order of its text
pipeline ==
    <<"fetch", "clean", "validate", "save_rejected", "store", "metrics",
      "upsert_metrics", "compare", "upsert_comparison", "export">>

\* a faulty variant: an empty batch does not end the run
EmptyNever(rows) == FALSE

\* df.empty
Empty(rows) == rows = <<>>

\* save_rejected: the content of the side file, the rejected rows in the
\* shape of the accepted ones
save_rejected(rejected_df) == rejected_df

\* a faulty variant: the rejected rows are not written
SaveRejectedNever(rejected_df, file) == file

\* if len(rejected_df) > 0: save_rejected(rejected_df, rejected_path)
SaveRejected(rejected_df, file) ==
    IF Len(rejected_df) > 0 THEN save_rejected(rejected_df) ELSE file

\* a faulty variant: the two frames are taken in the other order
UnpackSwapped(res) == [valid_df |-> res[2], rejected_df |-> res[1]]

\* valid_df, rejected_df = run_quality_checks(...)
Unpack(res) == [valid_df |-> res[1], rejected_df |-> res[2]]

Tables ==
    [prices |-> prices, daily_metrics |-> daily_metrics,
     price_comparison |-> price_comparison]

\* the command line: --sources, --start, --end, --compare, --skip-metrics
SourceArgs == {{"unknown"}, {"csv"}, {"lamour"}, {"csv", "lamour"}}
RunDays == {1, 2}

Stage(name) ==
    /\ run.status = "running"
    /\ pipeline[run.pc] = name

\* the run goes on to the next statement; after the last one it ends
Advance(r, done) ==
    [r EXCEPT !.pc = @ + 1,
              !.stages = @ \o done,
              !.status = IF r.pc = Len(pipeline) THEN "done" ELSE "running",
              !.outcome = IF r.pc = Len(pipeline) THEN "completed" ELSE ""]
\* return
Return(r, done, outcome) ==
    [r EXCEPT !.stages = @ \o done, !.status = "done", !.outcome = outcome]
\* an exception leaves pipeline(args)
Raise(r, done) ==
    [r EXCEPT !.stages = @ \o done, !.status = "raised", !.outcome = "raised"]

\* a process starts: setup_sources and the test of registry.sources
StartRun ==
    \E names \in SourceArgs, start \in RunDays, end \in RunDays,
       compare \in BOOLEAN, skip \in BOOLEAN :
        /\ run.status \in {"idle", "done", "raised"}
        /\ Len(prices) + MaxBatch <= MaxPrices
        /\ sources' = setup_sources(names)
        /\ fetched' = NoFetch
        /\ raw_df' = NoFrame
        /\ clean_df' = NoFrame
        /\ run' = [NoRun EXCEPT
                    !.status = IF setup_sources(names) = <<>> THEN "done" ELSE "running",
                    !.outcome = IF setup_sources(names) = <<>> THEN "no sources" ELSE "",
                    !.pc = 1,
                    !.args = [source_names |-> names, start |-> start, end |-> end,
                              compare |-> compare, skip_metrics |-> skip],
                    !.db0 = Tables]
        /\ UNCHANGED <<storeVars, csv, schema, writers>>

FetchStage ==
    /\ Stage("fetch")
    /\ \E outcomes \in PipelineOutcomes(sources) :
          LET res == fetch_all(sources, outcomes)
          IN /\ fetched' = res
             /\ IF res.status = "raised"
                THEN /\ raw_df' = raw_df
                     /\ run' = Raise(run, <<"fetch">>)
                ELSE /\ raw_df' = [status |-> "raw"] @@ ConcatFrame(res.rows)
                     /\ run' = IF Empty(res.rows)
                               THEN Return(run, <<"fetch">>, "no data")
                               ELSE Advance(run, <<"fetch">>)
    /\ UNCHANGED <<storeVars, sources, csv, clean_df, schema, writers>>

CleanStage ==
    /\ Stage("clean")
    /\ clean_df' = clean_data(raw_df)
    /\ run' = IF clean_data(raw_df).status = "raised"
              THEN Raise(run, <<"clean">>)
              ELSE Advance(run, <<"clean">>)
    /\ UNCHANGED <<storeVars, registryVars, raw_df, schema, writers>>

ValidateStage ==
    /\ Stage("validate")
    /\ LET u == Unpack(run_quality_checks(clean_df.rows, run.args.start, run.args.end))
       IN run' = Advance([run EXCEPT !.valid_df = u.valid_df,
                                     !.rejected_df = u.rejected_df],
                         <<"validate">>)
    /\ UNCHANGED <<storeVars, registryVars, cleanVars, schema, writers>>

\* the rejected rows go to the side file; then the test of valid_df.empty
SaveRejectedStage ==
    /\ Stage("save_rejected")
    /\ LET r == [run EXCEPT !.saved = SaveRejected(run.rejected_df, run.saved)]
           done == IF r.saved # run.saved THEN <<"save_rejected">> ELSE <<>>
       IN run' = IF Empty(run.valid_df)
                 THEN Return(r, done, "no valid data")
                 ELSE Advance(r, done)
    /\ UNCHANGED <<storeVars, registryVars, cleanVars, schema, writers>>

\* get_connection, init_schema, upsert_prices(conn, valid_df)
StoreStage ==
    /\ Stage("store")
    /\ LET db == init_schema([objects |-> schema, prices |-> prices,
                              daily_metrics |-> daily_metrics,
                              price_comparison |-> price_comparison])
           res == upsert_prices(db.prices,
                                [k \in 1..Len(run.valid_df) |->
                                    ToPriceRow(run.valid_df[k].cells)])
       IN /\ schema' = db.objects
          /\ prices' = res.tbl
          /\ daily_metrics' = db.daily_metrics
          /\ price_comparison' = db.price_comparison
          /\ run' = IF res.raised THEN Raise(run, <<"upsert_prices">>)
                    ELSE Advance(run, <<"upsert_prices">>)
    /\ UNCHANGED <<call, registryVars, cleanVars, writers>>

\* if not args.skip_metrics
MetricsWanted(args) == ~args.skip_metrics

\* a faulty variant: the comparison block stands inside the metrics block
CompareWantedUnlessSkipped(args) == args.compare /\ ~args.skip_metrics

\* if args.compare
CompareWanted(args) == args.compare

\* query_prices and all_metrics, unless --skip-metrics
MetricsStage ==
    /\ Stage("metrics")
    /\ \E prices_df \in query_prices(prices, DateOnly(run.args.start),
                                      DateOnly(run.args.end), NoProduct) :
          run' = IF ~MetricsWanted(run.args) \/ Empty(prices_df)
                 THEN Advance(run, <<>>)
                 ELSE Advance([run EXCEPT !.metrics_df = all_metrics(prices_df)],
                              <<"metrics">>)
    /\ UNCHANGED <<storeVars, registryVars, cleanVars, schema, writers>>

UpsertMetricsStage ==
    /\ Stage("upsert_metrics")
    /\ LET res == upsert_metrics(daily_metrics, run.metrics_df)
       IN IF Empty(run.metrics_df)
          THEN /\ daily_metrics' = daily_metrics
               /\ run' = Advance(run, <<>>)
          ELSE /\ daily_metrics' = res.tbl
               /\ run' = IF res.raised THEN Raise(run, <<"upsert_metrics">>)
                         ELSE Advance(run, <<"upsert_metrics">>)
    /\ UNCHANGED <<prices, price_comparison, call, registryVars, cleanVars, schema,
                   writers>>

\* query_latest_prices and find_cheapest, if --compare
CompareStage ==
    /\ Stage("compare")
    /\ \E latest_prices \in query_latest_prices(prices) :
          run' = IF ~CompareWanted(run.args) \/ Empty(latest_prices)
                 THEN Advance(run, <<>>)
                 ELSE Advance([run EXCEPT
                                  !.comparison_df = find_cheapest(latest_prices, Today)],
                              <<"comparison">>)
    /\ UNCHANGED <<storeVars, registryVars, cleanVars, schema, writers>>

UpsertComparisonStage ==
    /\ Stage("upsert_comparison")
    /\ LET res == upsert_comparison(price_comparison, run.comparison_df)
       IN IF Empty(run.comparison_df)
          THEN /\ price_comparison' = price_comparison
               /\ run' = Advance(run, <<>>)
          ELSE /\ price_comparison' = res.tbl
               /\ run' = IF res.raised THEN Raise(run, <<"upsert_comparison">>)
                         ELSE Advance(run, <<"upsert_comparison">>)
    /\ UNCHANGED <<prices, daily_metrics, call, registryVars, cleanVars, schema, writers>>

\* export_all, conn.close()
ExportStage ==
    /\ Stage("export")
    /\ \E files \in export_all(Tables, DateOnly(run.args.start), DateOnly(run.args.end)) :
          run' = Advance([run EXCEPT !.exported = files], <<"export">>)
    /\ UNCHANGED <<storeVars, registryVars, cleanVars, schema, writers>>

NextPipeline ==
    \/ StartRun
    \/ FetchStage
    \/ CleanStage
    \/ ValidateStage
    \/ SaveRejectedStage
    \/ StoreStage
    \/ MetricsStage
    \/ UpsertMetricsStage
    \/ CompareStage
    \/ UpsertComparisonStage
    \/ ExportStage

SpecPipeline == NewFile /\ [][NextPipeline]_vars

(***************************************************************************)
(* Properties of the pipeline run                                          *)
(***************************************************************************)
Stages == {run.stages[k] : k \in 1..Len(run.stages)}

Ended == run.status \in {"done", "raised"}

\* the three empty-batch conditions of a run: setup_sources registered no
\* source, fetch_all returned an empty batch, run_quality_checks returned an
\* empty valid_df
NoSourceConfigured == run.status # "idle" /\ sources = <<>>
NothingFetched == "fetch" \in Stages /\ fetched.status = "ok" /\ fetched.rows = <<>>
NothingAccepted == "validate" \in Stages /\ run.valid_df = <<>>

\* C11: a run with no source configured, with an empty fetched batch or with
\* no accepted row does not raise, executes no upsert and no export and
\* leaves the three tables as they were when it started; it has ended, or
\* it stands before the statement that writes the rejected rows and returns.
C11_EmptyBatchEarlyExit ==
    (NoSourceConfigured \/ NothingFetched \/ NothingAccepted) =>
        /\ run.status # "raised"
        /\ run.status = "running" => pipeline[run.pc] = "save_rejected"
        /\ run.status = "done" =>
              run.outcome \in {"no sources", "no data", "no valid data"}
        /\ Tables = run.db0
        /\ Stages \cap {"upsert_prices", "upsert_metrics", "upsert_comparison",
                         "export"} = {}
        /\ run.exported = NoRun.exported

\* a run on a database that holds rows has ended because no row was accepted
C11_Witness ==
    /\ run.status = "done"
    /\ run.outcome = "no valid data"
    /\ NothingAccepted
    /\ run.db0.prices # <<>>
    /\ run.db0.daily_metrics # <<>>

\* C12: a run that has ended after validation rejected at least one row has
\* written the rejected rows to the side file, also when it ended because
\* no row was accepted; and no upsert of the run comes before that write.
C12_RejectedRowsSaved ==
    ("validate" \in Stages /\ Len(run.rejected_df) > 0) =>
        /\ Ended => run.saved = run.rejected_df
        /\ "upsert_prices" \in Stages => run.saved = run.rejected_df

\* a run has ended early with two rejected rows written
C12_Witness ==
    /\ run.status = "done"
    /\ run.outcome = "no valid data"
    /\ Len(run.rejected_df) = 2
    /\ run.saved = run.rejected_df

\* the stages of a run in the order of the control flow
StageOrder ==
    <<"fetch", "clean", "validate", "upsert_prices", "metrics", "upsert_metrics",
      "comparison", "upsert_comparison", "export">>

StageRank(name) == CHOOSE k \in 1..Len(StageOrder) : StageOrder[k] = name

\* the rows the prices table gained since the run started show the run's
\* accepted rows, one each, in their order
AcceptedRowsStored ==
    /\ Len(prices) = Len(run.db0.prices) + Len(run.valid_df)
    /\ \A k \in 1..Len(run.valid_df) :
          ShowsPrice(prices[Len(run.db0.prices) + k], ToPriceRow(run.valid_df[k].cells))

\* C13: the stages a run has executed stand in the order fetch, clean,
\* validate, upsert_prices, metrics, upsert_metrics, comparison,
\* upsert_comparison, export, none twice; an upsert of metrics or comparison
\* rows follows their computation; the metrics and the comparison were
\* computed from the prices table that holds the run's accepted rows; and
\* the exported files are a reading of the three tables as the run's upserts
\* left them.
C13_StagesInOrder ==
    /\ \A x, y \in 1..Len(run.stages) :
          (x < y /\ run.stages[x] # "save_rejected" /\ run.stages[y] # "save_rejected")
              => StageRank(run.stages[x]) < StageRank(run.stages[y])
    /\ "upsert_prices" \in Stages => {"fetch", "clean", "validate"} \subseteq Stages
    /\ "upsert_metrics" \in Stages => "metrics" \in Stages
    /\ "upsert_comparison" \in Stages => "comparison" \in Stages
    /\ "metrics" \in Stages =>
          /\ "upsert_prices" \in Stages
          /\ AcceptedRowsStored
          /\ \E prices_df \in query_prices(prices, DateOnly(run.args.start),
                                            DateOnly(run.args.end), NoProduct) :
                run.metrics_df = all_metrics(prices_df)
    /\ "comparison" \in Stages =>
          /\ "upsert_prices" \in Stages
          /\ AcceptedRowsStored
          /\ \E latest_prices \in query_latest_prices(prices) :
                run.comparison_df = find_cheapest(latest_prices, Today)
    /\ "export" \in Stages =>
          /\ "upsert_prices" \in Stages
          /\ run.exported \in export_all(Tables, DateOnly(run.args.start),
                                          DateOnly(run.args.end))

\* a run on a database that holds rows has executed all nine stages
C13_Witness ==
    /\ run.status = "done"
    /\ {StageOrder[k] : k \in 1..Len(StageOrder)} \subseteq Stages
    /\ run.db0.prices # <<>>
    /\ run.exported.report

\* C14: once the store stage of a run with a accepted rows has been executed,
\* the prices table holds the rows it held when the run started and behind
\* them exactly a rows, the k-th showing the k-th accepted row, none showing
\* a rejected row; and a run with a > 0 that has ended has executed it.
C14_RowAccounting ==
    /\ "upsert_prices" \in Stages =>
          /\ Len(run.valid_df) > 0
          /\ AcceptedRowsStored
          /\ \A i \in 1..Len(run.db0.prices) : prices[i] = run.db0.prices[i]
          /\ \A j \in 1..Len(run.rejected_df) :
                \A i \in (Len(run.db0.prices) + 1)..Len(prices) :
                    ~ShowsPrice(prices[i], ToPriceRow(run.rejected_df[j].cells))
    /\ (Ended /\ "validate" \in Stages /\ Len(run.valid_df) > 0) =>
          "upsert_prices" \in Stages

\* the end-to-end scenario: five raw rows, three accepted and stored, two
\* rejected and written to the side file
C14_Witness ==
    /\ run.status = "done"
    /\ run.outcome = "completed"
    /\ Len(fetched.rows) = 5
    /\ Len(run.valid_df) = 3
    /\ Len(run.rejected_df) = 2
    /\ Len(prices) = Len(run.db0.prices) + 3
    /\ Len(run.saved) = 2

C21_FlagsBoundWrites ==
    run.status # "idle" =>
        /\ run.args.skip_metrics =>
              /\ daily_metrics = run.db0.daily_metrics
              /\ Stages \cap {"metrics", "upsert_metrics"} = {}
        /\ ~run.args.compare =>
              /\ price_comparison = run.db0.price_comparison
              /\ Stages \cap {"comparison", "upsert_comparison"} = {}
        /\ (run.status = "done" /\ run.outcome = "completed") =>
              /\ run.args.compare <=> "comparison" \in Stages
              /\ run.args.compare <=> "upsert_comparison" \in Stages

\* a completed run with --compare and --skip-metrics on a database that
\* holds metrics rows: the comparison was written, the metrics were not
C21_Witness ==
    /\ run.status = "done"
    /\ run.outcome = "completed"
    /\ run.args.compare
    /\ run.args.skip_metrics
    /\ "upsert_comparison" \in Stages
    /\ price_comparison # run.db0.price_comparison
    /\ run.db0.daily_metrics # <<>>

(***************************************************************************)
(* The csv directory source                                                *)
(*                                                                         *)
(* A directory is the sequence of its csv files in the order glob yields   *)
(* them; a file is the sequence of its data rows as read_csv returns them, *)
(* the timestamp a string.                                                 *)
(***************************************************************************)
MaxFiles == 2
MaxFileRows == 2

CsvRecords ==
    {[SephoraRaw EXCEPT !.timestamp = CStr(<<"2024-01-01">>)],
     [SephoraRaw EXCEPT !.timestamp = CStr(<<"2024-01-02">>), !.price = CNum(20)],
     [SephoraRaw EXCEPT !.timestamp = CStr(<<"2024-01-02">>),
                        !.product_id = CStr(<<"p2">>)]}

CsvFiles == UNION {[1..n -> CsvRecords] : n \in 0..MaxFileRows}
Directories == UNION {[1..n -> CsvFiles] : n \in 0..MaxFiles}

\* pd.to_datetime without errors = "coerce" raises on a string it cannot parse
ToDatetimeRaises(cell) == cell.t = "str" /\ CoerceDatetime(cell) = CNaT

\* CSVDirectorySource.fetch: after the loop df is the frame of the last
\* file; the assignment of the column aligns its index (0 .. len(df) - 1)
\* with the index of combined, and a label that df lacks gets NaT
csv_directory_fetch(csv_files) ==
    IF csv_files = <<>>
    THEN [status |-> "ok", files |-> csv_files, rows |-> <<>>]
    ELSE LET combined == Concat(csv_files)
             df == csv_files[Len(csv_files)]
         IN IF \E k \in 1..Len(df) : ToDatetimeRaises(df[k].timestamp)
            THEN [status |-> "raised", files |-> csv_files, rows |-> <<>>]
            ELSE [status |-> "ok",
                  files |-> csv_files,
                  rows |-> [k \in 1..Len(combined) |->
                              [combined[k] EXCEPT !.timestamp =
                                  IF k <= Len(df) THEN CoerceDatetime(df[k].timestamp)
                                  ELSE CNaT]]]

\* source.fetch() on the csv directory, and the batch fetch_all makes of it
CsvFetch ==
    \E csv_files \in Directories :
        /\ csv.status = "none"
        /\ csv' = csv_directory_fetch(csv_files)
        /\ raw_df' = IF csv_directory_fetch(csv_files).status = "ok"
                     THEN [status |-> "raw"] @@
                          ConcatFrame(TagAll(csv_directory_fetch(csv_files).rows, "csv_dir"))
                     ELSE raw_df
        /\ UNCHANGED <<storeVars, sources, fetched, clean_df, runVars>>

\* pipeline: clean_df = clean_data(raw_df), for a batch that is not empty
CsvClean ==
    /\ csv.status = "ok"
    /\ raw_df.status = "raw"
    /\ raw_df.rows # <<>>
    /\ clean_df.status = "none"
    /\ clean_df' = clean_data(raw_df)
    /\ UNCHANGED <<storeVars, registryVars, raw_df, runVars>>

NextCsv == CsvFetch \/ CsvClean

SpecCsv == Init /\ [][NextCsv]_vars

\* where the rows of file i start in the combined batch
RECURSIVE FileOffset(_, _)
FileOffset(csv_files, i) ==
    IF i <= 1 THEN 0 ELSE FileOffset(csv_files, i - 1) + Len(csv_files[i - 1])

\* C22: when CSVDirectorySource.fetch returns, its batch holds one record per
\* data row of every file of the directory, each record with the fields of
\* its own row and the timestamp of its own row; and cleaning the batch
\* drops none of them.
C22_CsvDirectoryKeepsEveryRow ==
    csv.status = "ok" =>
        /\ Len(csv.rows) = Len(Concat(csv.files))
        /\ \A i \in 1..Len(csv.files) :
              \A k \in 1..Len(csv.files[i]) :
                  LET rec == csv.rows[FileOffset(csv.files, i) + k]
                      own == csv.files[i][k]
                  IN /\ rec.timestamp = CoerceDatetime(own.timestamp)
                     /\ \A c \in DOMAIN own \ {"timestamp"} : rec[c] = own[c]
        /\ clean_df.status = "ok" => Len(clean_df.rows) = Len(csv.rows)

====
